---------------------------- MODULE Spec2Model ----------------------------
(***************************************************************************)
(* A model of the taal classification engine of taal-finder                *)
(* (src/src/taal_finder/taal.py, taals/definitions.py, models.py,          *)
(* beats.py).                                                              *)
(*                                                                         *)
(* Numbers.  The program computes with floats; the model computes with     *)
(* exact values:                                                           *)
(*   - accent strengths are small non-negative integers;                   *)
(*   - template weights are kept in hundredths (1.0 is 100);               *)
(*   - an averaged pattern is a record [num, den]: entry p has the value   *)
(*     num[p] / den;                                                       *)
(*   - a confidence is a record [dot, obsSq, expSq, penNum, penDen] whose  *)
(*     value is (penNum / penDen) * dot / sqrt(obsSq * expSq): the cosine  *)
(*     of two vectors with dot product dot and squared norms obsSq and     *)
(*     expSq, times a factor.  Confidences are compared by cross           *)
(*     multiplication of squares, on numbers of unbounded size;            *)
(*   - beat times are integers, in ticks of 1 / TicksPerSecond seconds.    *)
(* Sequences are 1-indexed: position p of the program is index p + 1.      *)
(***************************************************************************)
EXTENDS Integers, Sequences, FiniteSets, TLC

VARIABLES
    pc,                 \* the place of the run in detect_taal
    registry,           \* the module-level dict TAAL_REGISTRY
    downbeats,          \* beat_position column of the downbeat stream
    beats,              \* beat times, in ticks
    accent_strengths,   \* accent strength per beat
    cycle_length,       \* estimate_cycle_length(downbeats)
    rankings,           \* the ranking in hand, a sequence of [taal, conf]
    path,               \* which step produced the ranking in hand
    avg_pattern,        \* the value a direct call of _average_cyclic_pattern returned
    completed,          \* the retry offsets evaluated so far, when they run in any order
    result              \* the TaalDetectionResult returned, or NoResult

vars == <<pc, registry, downbeats, beats, accent_strengths, cycle_length,
          rankings, path, avg_pattern, completed, result>>

-----------------------------------------------------------------------------
(* Bounds of the model *)

\* the largest bar-relative position in a pipeline run's downbeat stream
MaxPos == 19
\* the longest accent-strength sequence of a pipeline run
MaxLen == 7
\* the difference between the number of beats and of strengths, when they differ
MaxSkew == 1
\* the inter-beat interval, in ticks, of beats that are apart
MaxIOI == 1
\* ticks per second of the beat times
TicksPerSecond == 4
\* the longest downbeat stream given to estimate_cycle_length alone
MaxDown == 6
\* the largest position in such a stream
MaxDownPos == 2
\* the longest strength sequence given to _average_cyclic_pattern alone
MaxAvgLen == 7
\* the largest cycle length given to _average_cyclic_pattern alone
MaxAvgCycle == 3
\* the largest strength given to _average_cyclic_pattern alone
MaxAvgStr == 1

\* the most beats of a run that looks at the tempo
MaxBeats == 4
\* the largest inter-beat interval, in ticks, of such a run
MaxGap == 7
\* the most strengths of a run of the retry on its own
MaxRetryLen == 3

-----------------------------------------------------------------------------
(* Generic helpers *)

Range(s) == {s[i] : i \in DOMAIN s}

SeqsUpTo(S, n) == UNION {[1..k -> S] : k \in 0..n}

RECURSIVE SumSeq(_)
SumSeq(s) == IF s = <<>> THEN 0 ELSE Head(s) + SumSeq(Tail(s))

SetMax(S) == CHOOSE x \in S : \A y \in S : y <= x

Abs(x) == IF x < 0 THEN -x ELSE x

-----------------------------------------------------------------------------
(* models.py, taals/definitions.py: the registry *)

\* the keys of TAAL_REGISTRY in iteration (insertion) order
RegistryOrder ==
    <<"dadra", "rupak", "keherwa", "jhaptaal", "ektaal", "deepchandi", "teentaal">>

TaalName == Range(RegistryOrder)

\* the TaalDefinition registered under a name
TaalDefinitionOf(name) ==
        CASE name = "dadra" ->
               [name |-> "dadra", matras |-> 6, vibhags |-> <<3, 3>>,
                sam_position |-> 0, khali_positions |-> <<3>>,
                tali_positions |-> <<0>>]
          [] name = "rupak" ->
               [name |-> "rupak", matras |-> 7, vibhags |-> <<3, 2, 2>>,
                sam_position |-> 0, khali_positions |-> <<0>>,
                tali_positions |-> <<3, 5>>]
          [] name = "keherwa" ->
               [name |-> "keherwa", matras |-> 8, vibhags |-> <<4, 4>>,
                sam_position |-> 0, khali_positions |-> <<4>>,
                tali_positions |-> <<0>>]
          [] name = "jhaptaal" ->
               [name |-> "jhaptaal", matras |-> 10, vibhags |-> <<2, 3, 2, 3>>,
                sam_position |-> 0, khali_positions |-> <<5>>,
                tali_positions |-> <<0, 2, 7>>]
          [] name = "ektaal" ->
               [name |-> "ektaal", matras |-> 12, vibhags |-> <<2, 2, 2, 2, 2, 2>>,
                sam_position |-> 0, khali_positions |-> <<2, 8>>,
                tali_positions |-> <<0, 4, 6, 10>>]
          [] name = "deepchandi" ->
               [name |-> "deepchandi", matras |-> 14, vibhags |-> <<3, 4, 3, 4>>,
                sam_position |-> 0, khali_positions |-> <<7>>,
                tali_positions |-> <<0, 3, 10>>]
          [] name = "teentaal" ->
               [name |-> "teentaal", matras |-> 16, vibhags |-> <<4, 4, 4, 4>>,
                sam_position |-> 0, khali_positions |-> <<8>>,
                tali_positions |-> <<0, 4, 12>>]

\* the registry with rupak's vibhags mistyped as (3, 2, 3)
TAAL_REGISTRY_mistyped ==
    [name \in TaalName |->
        IF name = "rupak"
        THEN [TaalDefinitionOf(name) EXCEPT !.vibhags = <<3, 2, 3>>]
        ELSE TaalDefinitionOf(name)]

\* the dict as the module defines it: what registry holds when a run starts
TAAL_REGISTRY == [name \in TaalName |-> TaalDefinitionOf(name)]

\* TaalDefinition.vibhag_boundaries: [0], then the running sum of vibhags[:-1]
RECURSIVE BoundariesFrom(_, _)
BoundariesFrom(vs, start) ==
    IF Len(vs) <= 1 THEN <<start>>
    ELSE <<start>> \o BoundariesFrom(Tail(vs), start + Head(vs))

vibhag_boundaries(taal_def) == BoundariesFrom(taal_def.vibhags, 0)

\* get_taals_by_matras comparing with >= in place of ==
get_taals_by_matras_atleast(matras) ==
    SelectSeq([i \in 1..Len(RegistryOrder) |-> registry[RegistryOrder[i]]],
              LAMBDA t : t.matras >= matras)

\* get_taals_by_matras accepting a matra count one off
get_taals_by_matras_near(matras) ==
    SelectSeq([i \in 1..Len(RegistryOrder) |-> registry[RegistryOrder[i]]],
              LAMBDA t : t.matras - matras \in {-1, 0, 1})

\* get_taals_by_matras: the definitions with this matra count, in registry order
get_taals_by_matras(matras) ==
    SelectSeq([i \in 1..Len(RegistryOrder) |-> registry[RegistryOrder[i]]],
              LAMBDA t : t.matras = matras)

-----------------------------------------------------------------------------
(* taal.py: estimate_cycle_length *)

\* the loop over i = 1 .. len - 1 (here i = 2 .. Len): the recorded cycle
\* lengths and the running maximum after the loop
RECURSIVE ScanResets(_, _, _, _)
ScanResets(pos, i, cycle_lengths, current_max) ==
    IF i > Len(pos) THEN [cycle_lengths |-> cycle_lengths, current_max |-> current_max]
    ELSE IF pos[i] <= pos[i - 1]
         THEN ScanResets(pos, i + 1, Append(cycle_lengths, current_max + 1), pos[i])
         ELSE ScanResets(pos, i + 1, cycle_lengths,
                         IF pos[i] > current_max THEN pos[i] ELSE current_max)

Count(s, v) == Cardinality({i \in DOMAIN s : s[i] = v})

FirstIndex(s, v) == CHOOSE i \in DOMAIN s : s[i] = v /\ \A j \in 1..(i - 1) : s[j] # v

\* Counter(cycle_lengths).most_common(1)[0][0]: the most frequent value, the
\* first inserted among equally frequent ones
MostCommon(s) ==
    CHOOSE v \in Range(s) :
        \A w \in Range(s) :
            \/ Count(s, v) > Count(s, w)
            \/ Count(s, v) = Count(s, w) /\ FirstIndex(s, v) <= FirstIndex(s, w)

\* estimate_cycle_length recording the trailing cycle without the + 1
estimate_cycle_length_short(pos) ==
    IF Len(pos) = 0 THEN 0
    ELSE LET scan == ScanResets(pos, 2, <<>>, 0)
             cycle_lengths ==
                 IF scan.current_max > 0
                 THEN Append(scan.cycle_lengths, scan.current_max)
                 ELSE scan.cycle_lengths
         IN  IF cycle_lengths = <<>> THEN SetMax(Range(pos)) + 1
             ELSE MostCommon(cycle_lengths)

estimate_cycle_length(pos) ==
    IF Len(pos) = 0 THEN 0
    ELSE LET scan == ScanResets(pos, 2, <<>>, 0)
             cycle_lengths ==
                 IF scan.current_max > 0
                 THEN Append(scan.cycle_lengths, scan.current_max + 1)
                 ELSE scan.cycle_lengths
         IN  IF cycle_lengths = <<>> THEN SetMax(Range(pos)) + 1
             ELSE MostCommon(cycle_lengths)

-----------------------------------------------------------------------------
(* taal.py: the expected accent pattern, in hundredths *)

BaselineWeight == 50
SamWeight == 100
TaliWeight == 80
KhaliWeight == 20
BoundaryWeight == 65

\* pattern[taal_def.sam_position] = 1.0 raises IndexError when the pattern is
\* too short to hold the sam position
TemplateRaises(taal_name, cycle_len) ==
    registry[taal_name].sam_position >= cycle_len

\* _build_expected_accent_pattern: baseline, then sam, then tali, then khali,
\* then the vibhag boundaries still at the baseline; each later assignment
\* overwrites the earlier ones
_build_expected_accent_pattern(taal_name, cycle_len) ==
    LET taal_def == registry[taal_name]
        base == [i \in 1..cycle_len |-> BaselineWeight]
        sam == [i \in 1..cycle_len |->
                   IF i - 1 = taal_def.sam_position THEN SamWeight ELSE base[i]]
        tali == [i \in 1..cycle_len |->
                   IF i - 1 \in Range(taal_def.tali_positions)
                   THEN TaliWeight ELSE sam[i]]
        khali == [i \in 1..cycle_len |->
                   IF i - 1 \in Range(taal_def.khali_positions)
                   THEN KhaliWeight ELSE tali[i]]
    IN  [i \in 1..cycle_len |->
            IF i - 1 \in Range(vibhag_boundaries(taal_def)) /\ khali[i] = BaselineWeight
            THEN BoundaryWeight ELSE khali[i]]

-----------------------------------------------------------------------------
(* taal.py: _average_cyclic_pattern *)

Zeros(n) == [i \in 1..n |-> 0]

\* the mean taken without trimming the trailing partial cycle
CycleMean_untrimmed(strengths, cycle_len, n_full_cycles) ==
    [num |-> [p \in 1..cycle_len |->
                 SumSeq([k \in 1..(n_full_cycles + 1) |->
                            IF (k - 1) * cycle_len + p <= Len(strengths)
                            THEN strengths[(k - 1) * cycle_len + p] ELSE 0])],
     den |-> n_full_cycles]

\* the mean over the n_full_cycles rows of the trimmed, reshaped strengths
CycleMean(strengths, cycle_len, n_full_cycles) ==
    [num |-> [p \in 1..cycle_len |->
                 SumSeq([k \in 1..n_full_cycles |-> strengths[(k - 1) * cycle_len + p]])],
     den |-> n_full_cycles]

_average_cyclic_pattern(strengths, cycle_len) ==
    IF Len(strengths) = 0 \/ cycle_len <= 0
    THEN [num |-> Zeros(cycle_len), den |-> 1]
    ELSE LET n_full_cycles == Len(strengths) \div cycle_len
         IN  IF n_full_cycles = 0
             THEN [num |-> [p \in 1..cycle_len |->
                              IF p <= Len(strengths) THEN strengths[p] ELSE 0],
                   den |-> 1]
             ELSE CycleMean(strengths, cycle_len, n_full_cycles)

-----------------------------------------------------------------------------
(* Exact comparison of confidences: naturals of unbounded size, as sequences *)
(* of limbs in base 10000, least significant first; the empty sequence is   *)
(* zero                                                                     *)

RECURSIVE BigTimes(_, _, _)
BigTimes(big, k, carry) ==
    IF big = <<>>
    THEN IF carry = 0 THEN <<>>
         ELSE <<carry % 10000>> \o BigTimes(<<>>, k, carry \div 10000)
    ELSE LET v == Head(big) * k + carry
         IN  <<v % 10000>> \o BigTimes(Tail(big), k, v \div 10000)

\* the product of a sequence of naturals, each below 200000
RECURSIVE BigProduct(_)
BigProduct(factors) ==
    IF factors = <<>> THEN <<1>>
    ELSE IF \E i \in DOMAIN factors : factors[i] = 0 THEN <<>>
    ELSE BigTimes(BigProduct(Tail(factors)), Head(factors), 0)

RECURSIVE BigLeqFrom(_, _, _)
BigLeqFrom(a, b, i) ==
    IF i = 0 THEN TRUE
    ELSE IF a[i] # b[i] THEN a[i] < b[i]
    ELSE BigLeqFrom(a, b, i - 1)

BigLeq(a, b) ==
    IF Len(a) # Len(b) THEN Len(a) < Len(b) ELSE BigLeqFrom(a, b, Len(a))

\* the value of confidence a is at most the value of confidence b
ConfLeq(a, b) ==
    BigLeq(BigProduct(<<a.penNum, a.penNum, b.penDen, b.penDen,
                        a.dot, a.dot, b.obsSq, b.expSq>>),
           BigProduct(<<b.penNum, b.penNum, a.penDen, a.penDen,
                        b.dot, b.dot, a.obsSq, a.expSq>>))

ConfEq(a, b) ==
    BigProduct(<<a.penNum, a.penNum, b.penDen, b.penDen,
                 a.dot, a.dot, b.obsSq, b.expSq>>)
        = BigProduct(<<b.penNum, b.penNum, a.penDen, a.penDen,
                       b.dot, b.dot, a.obsSq, a.expSq>>)

\* the confidence with the value num / den
ConfOfFraction(num, den) ==
    [dot |-> 1, obsSq |-> 1, expSq |-> 1, penNum |-> num, penDen |-> den]

-----------------------------------------------------------------------------
(* taal.py: _normalize, the cosine similarity and its clamp *)

Dot(a, b) == SumSeq([i \in DOMAIN a |-> a[i] * b[i]])

NormSq(a) == Dot(a, a)

\* np.dot(_normalize(avg), _normalize(expected)), clamped to [0, 1].  A vector
\* of norm 0 is left as it is, and the dot product with it is 0; the divisor of
\* the averaged pattern cancels in the quotient.
Confidence(avg, expected) ==
    LET dot == Dot(avg.num, expected)
        obsSq == NormSq(avg.num)
        expSq == NormSq(expected)
    IN  IF obsSq = 0 \/ expSq = 0 \/ dot <= 0
        THEN [dot |-> 0, obsSq |-> 1, expSq |-> 1, penNum |-> 1, penDen |-> 1]
        ELSE IF BigLeq(BigProduct(<<obsSq, expSq>>), BigProduct(<<dot, dot>>))
        THEN [dot |-> 1, obsSq |-> 1, expSq |-> 1, penNum |-> 1, penDen |-> 1]
        ELSE [dot |-> dot, obsSq |-> obsSq, expSq |-> expSq,
              penNum |-> 1, penDen |-> 1]

-----------------------------------------------------------------------------
(* sorted(results, key=lambda x: x[1], reverse=True): stable, descending *)

\* x goes behind every entry whose confidence is at least its own
RECURSIVE InsertDesc(_, _)
InsertDesc(sorted, x) ==
    IF sorted = <<>> THEN <<x>>
    ELSE IF ConfLeq(x.conf, Head(sorted).conf)
         THEN <<Head(sorted)>> \o InsertDesc(Tail(sorted), x)
         ELSE <<x>> \o sorted

\* the list left as it is
SortedDesc_unsorted(s) == s

RECURSIVE SortedDesc(_)
SortedDesc(s) ==
    IF s = <<>> THEN <<>>
    ELSE InsertDesc(SortedDesc(SubSeq(s, 1, Len(s) - 1)), s[Len(s)])

-----------------------------------------------------------------------------
(* taal.py: match_accent_pattern *)

\* some candidate's template cannot be built
MatchRaises(cycle_len) ==
    LET candidates == get_taals_by_matras(cycle_len)
    IN  \E i \in DOMAIN candidates : TemplateRaises(candidates[i].name, cycle_len)

match_accent_pattern(observed_pattern, cycle_len) ==
    LET candidates == get_taals_by_matras(cycle_len)
        results == [i \in DOMAIN candidates |->
                       [taal |-> candidates[i].name,
                        conf |-> Confidence(
                                    _average_cyclic_pattern(observed_pattern, cycle_len),
                                    _build_expected_accent_pattern(candidates[i].name,
                                                                   cycle_len))]]
    IN  IF candidates = <<>> THEN <<>> ELSE SortedDesc(results)

-----------------------------------------------------------------------------
(* taal.py: _try_nearby_cycle_lengths *)

\* the retry looking one matra away only
RetryOffsets_near == <<-1, 1>>

RetryOffsets == <<-1, 1, -2, 2>>

\* the penalty left out
Penalized_none(conf) == conf

\* conf * 0.8
Penalized(conf) ==
    [conf EXCEPT !.penNum = @ * 8, !.penDen = @ * 10]

\* the entries one offset adds to all_rankings
NearbyRankings(strengths, cycle_len, offset) ==
    LET nearby == cycle_len + offset
        found == match_accent_pattern(strengths, nearby)
    IN  IF nearby > 0
        THEN [i \in DOMAIN found |->
                 [taal |-> found[i].taal, conf |-> Penalized(found[i].conf)]]
        ELSE <<>>

RECURSIVE AllNearby(_, _, _)
AllNearby(strengths, cycle_len, k) ==
    IF k > Len(RetryOffsets) THEN <<>>
    ELSE NearbyRankings(strengths, cycle_len, RetryOffsets[k])
            \o AllNearby(strengths, cycle_len, k + 1)

TryNearbyRaises(cycle_len) ==
    \E k \in DOMAIN RetryOffsets :
        cycle_len + RetryOffsets[k] > 0 /\ MatchRaises(cycle_len + RetryOffsets[k])

\* _try_nearby_cycle_lengths returning the merged list as it is
_try_nearby_cycle_lengths_unsorted(strengths, cycle_len) ==
    AllNearby(strengths, cycle_len, 1)

_try_nearby_cycle_lengths(strengths, cycle_len) ==
    SortedDesc(AllNearby(strengths, cycle_len, 1))

-----------------------------------------------------------------------------
(* beats.py: estimate_tempo.  A tempo is a fraction [num, den] of beats per  *)
(* minute; 0.0 is [num |-> 0, den |-> 1]                                     *)

\* compute_ioi: np.diff(beat_times)
compute_ioi(beat_times) ==
    [i \in 1..(Len(beat_times) - 1) |-> beat_times[i + 1] - beat_times[i]]

\* the k-th smallest entry of a non-empty sequence
KthSmallest(s, k) ==
    CHOOSE v \in Range(s) :
        /\ Cardinality({i \in DOMAIN s : s[i] < v}) < k
        /\ Cardinality({i \in DOMAIN s : s[i] <= v}) >= k

\* twice np.median(s): the middle entry, or the mean of the two middle ones
TwiceMedian(s) ==
    IF Len(s) % 2 = 1 THEN 2 * KthSmallest(s, (Len(s) + 1) \div 2)
    ELSE KthSmallest(s, Len(s) \div 2) + KthSmallest(s, Len(s) \div 2 + 1)

\* estimate_tempo falling back to 120 BPM when there are too few beats
estimate_tempo_default(beat_times) ==
    IF Len(beat_times) < 2 THEN [num |-> 120, den |-> 1]
    ELSE LET twice == TwiceMedian(compute_ioi(beat_times))
         IN  IF twice <= 0 THEN [num |-> 0, den |-> 1]
             ELSE [num |-> 60 * 2 * TicksPerSecond, den |-> twice]

estimate_tempo(beat_times) ==
    IF Len(beat_times) < 2 THEN [num |-> 0, den |-> 1]
    ELSE LET twice == TwiceMedian(compute_ioi(beat_times))
         IN  IF twice <= 0 THEN [num |-> 0, den |-> 1]
             ELSE [num |-> 60 * 2 * TicksPerSecond, den |-> twice]

\* round(num / den) to the nearest integer, a tie to the even one
RoundHalfEven(num, den) ==
    LET q == num \div den
        r == num % den
    IN  IF 2 * r < den THEN q
        ELSE IF 2 * r > den THEN q + 1
        ELSE IF q % 2 = 0 THEN q ELSE q + 1

\* round(tempo, 1), in tenths of a beat per minute
RoundedTempo(tempo) == RoundHalfEven(10 * tempo.num, tempo.den)

\* round(matra_duration * matras, 4) with matra_duration = 60.0 / tempo if
\* tempo > 0 else 0.0, in ten-thousandths of a second
RoundedDuration(tempo, matras) ==
    IF tempo.num > 0
    THEN RoundHalfEven(60 * 10000 * tempo.den * matras, tempo.num)
    ELSE 0

-----------------------------------------------------------------------------
(* taal.py: _build_fallback_result, _build_beat_infos, the result *)

NoResult == [taal |-> "none"]

NoPattern == [num |-> <<>>, den |-> 0]

\* _build_beat_infos counting the positions from 1
_build_beat_infos_from_one(beat_times, strengths, taal_def) ==
    [k \in 1..Len(beat_times) |->
        LET pos == k % taal_def.matras
        IN  [time |-> RoundHalfEven(10000 * beat_times[k], TicksPerSecond),
             beat_position |-> pos,
             is_sam |-> (pos = taal_def.sam_position),
             is_khali |-> (pos \in Range(taal_def.khali_positions)),
             strength |-> IF k <= Len(strengths) THEN strengths[k] ELSE 0]]

\* _build_beat_infos walking zip(beats, strengths): it stops at the shorter one
_build_beat_infos_zip(beat_times, strengths, taal_def) ==
    [k \in 1..(IF Len(beat_times) <= Len(strengths)
               THEN Len(beat_times) ELSE Len(strengths)) |->
        LET pos == (k - 1) % taal_def.matras
        IN  [time |-> RoundHalfEven(10000 * beat_times[k], TicksPerSecond),
             beat_position |-> pos,
             is_sam |-> (pos = taal_def.sam_position),
             is_khali |-> (pos \in Range(taal_def.khali_positions)),
             strength |-> strengths[k]]]

\* one BeatInfo per beat; beat i of the program is index i + 1 here
_build_beat_infos(beat_times, strengths, taal_def) ==
    [k \in 1..Len(beat_times) |->
        LET pos == (k - 1) % taal_def.matras
        IN  [time |-> RoundHalfEven(10000 * beat_times[k], TicksPerSecond),
             beat_position |-> pos,
             is_sam |-> (pos = taal_def.sam_position),
             is_khali |-> (pos \in Range(taal_def.khali_positions)),
             strength |-> IF k <= Len(strengths) THEN strengths[k] ELSE 0]]

\* min(TAAL_REGISTRY.values(), key=lambda t: abs(t.matras - cycle_length)):
\* the first of the closest in registry order
ClosestTaal(cycle_len) ==
    LET dist(i) == Abs(registry[RegistryOrder[i]].matras - cycle_len)
        best == CHOOSE i \in DOMAIN RegistryOrder :
                    /\ \A j \in DOMAIN RegistryOrder : dist(i) <= dist(j)
                    /\ \A j \in 1..(i - 1) : dist(j) > dist(i)
    IN  registry[RegistryOrder[best]]

\* _build_fallback_result annotating the beats with the closest taal
_build_fallback_result_annotated(beat_times, cycle_len) ==
    LET tempo == estimate_tempo(beat_times)
        closest_taal == ClosestTaal(cycle_len)
    IN  [taal |-> closest_taal.name,
         confidence |-> ConfOfFraction(1, 10),
         tempo_bpm |-> RoundedTempo(tempo),
         matra_duration |-> RoundedDuration(tempo, 1),
         cycle_duration |-> RoundedDuration(tempo, closest_taal.matras),
         beats |-> _build_beat_infos(beat_times, <<>>, closest_taal),
         alternative_taals |-> <<>>]

\* _build_fallback_result multiplying by the estimated cycle length in place
\* of the closest taal's matras
_build_fallback_result_estimated(beat_times, cycle_len) ==
    LET tempo == estimate_tempo(beat_times)
        closest_taal == ClosestTaal(cycle_len)
    IN  [taal |-> closest_taal.name,
         confidence |-> ConfOfFraction(1, 10),
         tempo_bpm |-> RoundedTempo(tempo),
         matra_duration |-> RoundedDuration(tempo, 1),
         cycle_duration |-> RoundedDuration(tempo, cycle_len),
         beats |-> <<>>,
         alternative_taals |-> <<>>]

_build_fallback_result(beat_times, cycle_len) ==
    LET tempo == estimate_tempo(beat_times)
        closest_taal == ClosestTaal(cycle_len)
    IN  [taal |-> closest_taal.name,
         confidence |-> ConfOfFraction(1, 10),
         tempo_bpm |-> RoundedTempo(tempo),
         matra_duration |-> RoundedDuration(tempo, 1),
         cycle_duration |-> RoundedDuration(tempo, closest_taal.matras),
         beats |-> <<>>,
         alternative_taals |-> <<>>]

\* detect_taal keeping the whole ranking as the alternatives
BuildResult_all(ranked, beat_times, strengths) ==
    LET best == ranked[1]
        tempo == estimate_tempo(beat_times)
        taal_def == registry[best.taal]
    IN  [taal |-> best.taal,
         confidence |-> best.conf,
         tempo_bpm |-> RoundedTempo(tempo),
         matra_duration |-> RoundedDuration(tempo, 1),
         cycle_duration |-> RoundedDuration(tempo, taal_def.matras),
         beats |-> _build_beat_infos(beat_times, strengths, taal_def),
         alternative_taals |-> ranked]

\* detect_taal from "best_taal, best_confidence = rankings[0]" on
BuildResult(ranked, beat_times, strengths) ==
    LET best == ranked[1]
        tempo == estimate_tempo(beat_times)
        taal_def == registry[best.taal]
    IN  [taal |-> best.taal,
         confidence |-> best.conf,
         tempo_bpm |-> RoundedTempo(tempo),
         matra_duration |-> RoundedDuration(tempo, 1),
         cycle_duration |-> RoundedDuration(tempo, taal_def.matras),
         beats |-> _build_beat_infos(beat_times, strengths, taal_def),
         alternative_taals |-> Tail(ranked)]

-----------------------------------------------------------------------------
(* The inputs of a run: what detect_beats, detect_downbeats and              *)
(* extract_accent_pattern hand to the classification core.  The core takes   *)
(* the three sequences as they come: the beat times and the strengths are    *)
(* separate inputs, and their lengths may differ.                            *)

\* the accent strengths of a pipeline run: a beat is weak or strong
StrengthValues == {0, 1}

\* beat times with a constant inter-beat interval
UniformBeats(n, ioi) == [i \in 1..n |-> i * ioi]

\* the beat streams for n strengths: as many beats, or MaxSkew fewer or more,
\* all at the same time or MaxIOI ticks apart
BeatStreams(n) ==
    {UniformBeats(m, ioi) :
        m \in {k \in {n - MaxSkew, n, n + MaxSkew} : k >= 0}, ioi \in {0, MaxIOI}}

\* a pipeline run's downbeat stream: empty, or a single bar-relative position,
\* for which the estimate is that position + 1
PipelineDownbeats == SeqsUpTo(0..MaxPos, 1)

Init ==
    /\ pc = "estimate"
    /\ registry = TAAL_REGISTRY
    /\ completed = <<>>
    /\ downbeats \in PipelineDownbeats
    /\ accent_strengths \in SeqsUpTo(StrengthValues, MaxLen)
    /\ beats \in BeatStreams(Len(accent_strengths))
    /\ cycle_length = 0
    /\ rankings = <<>>
    /\ path = "none"
    /\ avg_pattern = NoPattern
    /\ result = NoResult

\* the beat times that start at 0 and go on by the gaps
RECURSIVE BeatsFromGaps(_, _)
BeatsFromGaps(first, gaps) ==
    IF gaps = <<>> THEN <<first>>
    ELSE <<first>> \o BeatsFromGaps(first + Head(gaps), Tail(gaps))

\* ascending beat times, up to MaxBeats of them, up to MaxGap ticks apart
GappedBeats ==
    {<<>>} \cup {BeatsFromGaps(0, gaps) : gaps \in SeqsUpTo(0..MaxGap, MaxBeats - 1)}

\* downbeat streams whose estimates 0, 5 and 7 lead to the fallback, to the
\* retry and to the primary match
TempoDownbeats == {<<>>, <<4>>, <<6>>}

\* runs that differ in their beat times: no strengths, any spacing of beats
InitTempo ==
    /\ pc = "estimate"
    /\ registry = TAAL_REGISTRY
    /\ completed = <<>>
    /\ downbeats \in TempoDownbeats
    /\ accent_strengths = <<>>
    /\ beats \in GappedBeats
    /\ cycle_length = 0
    /\ rankings = <<>>
    /\ path = "none"
    /\ avg_pattern = NoPattern
    /\ result = NoResult

\* estimate_cycle_length called on longer streams of small positions
InitEstimate ==
    /\ pc = "estimate"
    /\ registry = TAAL_REGISTRY
    /\ completed = <<>>
    /\ downbeats \in SeqsUpTo(0..MaxDownPos, MaxDown)
    /\ accent_strengths = <<>>
    /\ beats = <<>>
    /\ cycle_length = 0
    /\ rankings = <<>>
    /\ path = "none"
    /\ avg_pattern = NoPattern
    /\ result = NoResult

\* _try_nearby_cycle_lengths called on its own, for every estimate the
\* pipeline can hand it
InitRetry ==
    /\ pc = "nearby"
    /\ registry = TAAL_REGISTRY
    /\ completed = <<>>
    /\ downbeats = <<>>
    /\ accent_strengths \in SeqsUpTo(StrengthValues, MaxRetryLen)
    /\ beats = <<>>
    /\ cycle_length \in 0..(MaxPos + 1)
    /\ rankings = <<>>
    /\ path = "none"
    /\ avg_pattern = NoPattern
    /\ result = NoResult

\* _average_cyclic_pattern called on its own
InitAverage ==
    /\ pc = "average"
    /\ registry = TAAL_REGISTRY
    /\ completed = <<>>
    /\ downbeats = <<>>
    /\ accent_strengths \in SeqsUpTo(0..MaxAvgStr, MaxAvgLen)
    /\ beats = <<>>
    /\ cycle_length \in 0..MaxAvgCycle
    /\ rankings = <<>>
    /\ path = "none"
    /\ avg_pattern = NoPattern
    /\ result = NoResult

-----------------------------------------------------------------------------
(* taal.py: detect_taal, step by step *)

\* cycle_length = estimate_cycle_length(downbeats)
EstimateStep ==
    /\ pc = "estimate"
    /\ cycle_length' = estimate_cycle_length(downbeats)
    /\ pc' = "match"
    /\ UNCHANGED <<registry, completed, downbeats, beats, accent_strengths, rankings, path,
                   avg_pattern, result>>

\* the match followed by the retry whatever it found
MatchStep_retrying ==
    /\ pc = "match"
    /\ IF MatchRaises(cycle_length)
       THEN /\ pc' = "error"
            /\ UNCHANGED <<rankings, path>>
       ELSE /\ rankings' = match_accent_pattern(accent_strengths, cycle_length)
            /\ path' = "primary"
            /\ pc' = "retry"
    /\ UNCHANGED <<registry, completed, downbeats, beats, accent_strengths, cycle_length,
                   avg_pattern, result>>

\* rankings = match_accent_pattern(accent_strengths, cycle_length)
MatchStep ==
    /\ pc = "match"
    /\ IF MatchRaises(cycle_length)
       THEN /\ pc' = "error"
            /\ UNCHANGED <<rankings, path>>
       ELSE LET found == match_accent_pattern(accent_strengths, cycle_length)
            IN  /\ rankings' = found
                /\ path' = "primary"
                /\ pc' = IF found = <<>> THEN "retry" ELSE "build"
    /\ UNCHANGED <<registry, completed, downbeats, beats, accent_strengths, cycle_length,
                   avg_pattern, result>>

\* if not rankings: rankings = _try_nearby_cycle_lengths(...)
RetryStep ==
    /\ pc = "retry"
    /\ IF TryNearbyRaises(cycle_length)
       THEN /\ pc' = "error"
            /\ UNCHANGED <<rankings, path>>
       ELSE LET found == _try_nearby_cycle_lengths(accent_strengths, cycle_length)
            IN  /\ rankings' = found
                /\ path' = "retry"
                /\ pc' = IF found = <<>> THEN "fallback" ELSE "build"
    /\ UNCHANGED <<registry, completed, downbeats, beats, accent_strengths, cycle_length,
                   avg_pattern, result>>

\* if not rankings: return _build_fallback_result(beats, cycle_length)
FallbackStep ==
    /\ pc = "fallback"
    /\ result' = _build_fallback_result(beats, cycle_length)
    /\ path' = "fallback"
    /\ pc' = "done"
    /\ UNCHANGED <<registry, completed, downbeats, beats, accent_strengths, cycle_length, rankings,
                   avg_pattern>>

\* the rest of detect_taal: the result built from the ranking in hand
\* (i % taal_def.matras raises ZeroDivisionError for a taal of 0 matras)
BuildStep ==
    /\ pc = "build"
    /\ IF registry[rankings[1].taal].matras <= 0
       THEN pc' = "error" /\ UNCHANGED result
       ELSE /\ result' = BuildResult(rankings, beats, accent_strengths)
            /\ pc' = "done"
    /\ UNCHANGED <<registry, completed, downbeats, beats, accent_strengths, cycle_length, rankings,
                   path, avg_pattern>>

\* a direct call of _average_cyclic_pattern(accent_strengths, cycle_length)
AverageStep ==
    /\ pc = "average"
    /\ avg_pattern' = _average_cyclic_pattern(accent_strengths, cycle_length)
    /\ pc' = "averaged"
    /\ UNCHANGED <<registry, completed, downbeats, beats, accent_strengths, cycle_length, rankings,
                   path, result>>

\* one iteration of the loop of _try_nearby_cycle_lengths, for the k-th
\* offset, run as a task of its own: the tasks finish in any order
OffsetStep(k) ==
    /\ pc = "nearby"
    /\ k \notin Range(completed)
    /\ completed' = Append(completed, k)
    /\ UNCHANGED <<pc, registry, downbeats, beats, accent_strengths, cycle_length,
                   rankings, path, avg_pattern, result>>

\* the rankings of the offsets, one after the other as they finished
RECURSIVE MergedAsCompleted(_, _, _)
MergedAsCompleted(strengths, cycle_len, order) ==
    IF order = <<>> THEN <<>>
    ELSE NearbyRankings(strengths, cycle_len, RetryOffsets[Head(order)])
            \o MergedAsCompleted(strengths, cycle_len, Tail(order))

\* once every offset has finished: all_rankings merged, then sorted
MergeStep ==
    /\ pc = "nearby"
    /\ Len(completed) = Len(RetryOffsets)
    /\ rankings' = SortedDesc(MergedAsCompleted(accent_strengths, cycle_length, completed))
    /\ pc' = "merged"
    /\ UNCHANGED <<registry, completed, downbeats, beats, accent_strengths, cycle_length,
                   path, avg_pattern, result>>

NextRetry == (\E k \in DOMAIN RetryOffsets : OffsetStep(k)) \/ MergeStep

Next == EstimateStep \/ MatchStep \/ RetryStep \/ FallbackStep \/ BuildStep

Spec == Init /\ [][Next]_vars

SpecTempo == InitTempo /\ [][Next]_vars

SpecRetry == InitRetry /\ [][NextRetry]_vars

SpecEstimate == InitEstimate /\ [][EstimateStep]_vars

SpecAverage == InitAverage /\ [][AverageStep]_vars

-----------------------------------------------------------------------------
(* Properties *)

\* the registered taals with this matra count
TaalsWithMatras(c) == {name \in TaalName : registry[name].matras = c}

\* no registered taal has a matra count within 2 of c
NoTaalNear(c) == \A d \in -2..2 : TaalsWithMatras(c + d) = {}

\* the value of conf times num / den
ConfTimes(conf, num, den) ==
    [conf EXCEPT !.penNum = @ * num, !.penDen = @ * den]

\* C1: whatever the estimated cycle length (0 and lengths with no registered
\* taal within 2 of it included) and whatever the beats and strengths, the run
\* is never in an error state: it is at a step of detect_taal that can be
\* taken (the result is built only from a non-empty ranking), or it has
\* returned, and the result it returned names a registered taal.
C1_AlwaysARegisteredTaal ==
    /\ pc \in {"estimate", "match", "retry", "fallback", "build", "done"}
    /\ pc = "build" => rankings # <<>>
    /\ pc = "done" => result # NoResult /\ result.taal \in TaalName

\* a run with an empty downbeat stream (cycle length 0, nothing within 2) that
\* returned a result for a non-empty beat sequence
C1_Witness ==
    /\ pc = "done"
    /\ downbeats = <<>>
    /\ cycle_length = 0
    /\ NoTaalNear(cycle_length)
    /\ Len(beats) > 0
    /\ result.taal \in TaalName

\* C2: a result of the terminal fallback (primary ranking and retry ranking
\* both empty) has confidence exactly 0.1, no beats and no alternatives.
C2_FallbackShape ==
    (pc = "done" /\ path = "fallback") =>
        /\ ConfEq(result.confidence, ConfOfFraction(1, 10))
        /\ result.beats = <<>>
        /\ result.alternative_taals = <<>>

\* a fallback result returned for a run with several beats and strengths
C2_Witness ==
    /\ pc = "done"
    /\ path = "fallback"
    /\ rankings = <<>>
    /\ Len(beats) >= 2
    /\ Len(accent_strengths) >= 2
    /\ result.beats = <<>>

\* C3: the ranking match_accent_pattern returns for the estimated cycle length
\* is empty exactly when no registered taal has that matra count, and otherwise
\* holds one entry for each registered taal with that matra count and no other.
C3_MatchCandidates ==
    (path = "primary" /\ pc \in {"retry", "build"}) =>
        /\ (rankings = <<>>) <=> (TaalsWithMatras(cycle_length) = {})
        /\ {rankings[i].taal : i \in DOMAIN rankings} = TaalsWithMatras(cycle_length)
        /\ Len(rankings) = Cardinality(TaalsWithMatras(cycle_length))

\* the match at cycle length 7 on at least one full cycle of strengths, which
\* ranks rupak alone
C3_Witness ==
    /\ path = "primary"
    /\ pc = "build"
    /\ cycle_length = 7
    /\ Len(accent_strengths) >= 7
    /\ Len(rankings) = 1
    /\ rankings[1].taal = "rupak"

\* the entry match_accent_pattern gives a taal at the taal's own matra count
OwnEntry(taal) ==
    Head(SelectSeq(match_accent_pattern(accent_strengths, registry[taal].matras),
                   LAMBDA e : e.taal = taal))

\* C4: each entry of the retry ranking has exactly 0.8 times the confidence
\* match_accent_pattern gives the same taal, for the same strengths, at the
\* taal's own matra count.
C4_RetryPenalty ==
    (path = "retry" /\ pc \in {"fallback", "build"}) =>
        \A i \in DOMAIN rankings :
            ConfEq(ConfTimes(rankings[i].conf, 10, 1),
                   ConfTimes(OwnEntry(rankings[i].taal).conf, 8, 1))

\* a retry ranking with an entry of non-zero confidence
C4_Witness ==
    /\ path = "retry"
    /\ pc = "build"
    /\ \E i \in DOMAIN rankings : rankings[i].conf.dot > 0

\* pos is k >= 1 complete repetitions of the positions 0, 1, ..., L - 1
IsRepetition(pos, L) ==
    /\ L >= 1
    /\ Len(pos) >= L
    /\ Len(pos) % L = 0
    /\ \A i \in DOMAIN pos : pos[i] = (i - 1) % L

\* C5: estimate_cycle_length returns L for a downbeat stream made of k >= 1
\* complete repetitions of the positions 0 .. L - 1, and 0 for the empty stream.
C5_RepeatedCycles ==
    pc = "match" =>
        /\ downbeats = <<>> => cycle_length = 0
        /\ \A L \in 1..(MaxDownPos + 1) :
               IsRepetition(downbeats, L) => cycle_length = L

\* the estimate for two complete cycles of length 3
C5_Witness ==
    /\ pc = "match"
    /\ downbeats = <<0, 1, 2, 0, 1, 2>>
    /\ cycle_length = 3

\* C6: in a returned result the best match is not among the alternatives, and
\* no taal is among the alternatives twice, on the primary path and on the
\* retry path alike.
C6_AlternativesExcludeBest ==
    pc = "done" =>
        /\ \A i \in DOMAIN result.alternative_taals :
               result.alternative_taals[i].taal # result.taal
        /\ \A i, j \in DOMAIN result.alternative_taals :
               i # j => result.alternative_taals[i].taal
                            # result.alternative_taals[j].taal

\* a result of the retry path with two alternatives or more
C6_Witness ==
    /\ pc = "done"
    /\ path = "retry"
    /\ Len(result.alternative_taals) >= 2

\* C7: the ranking in hand, from match_accent_pattern or from the merged retry,
\* is sorted by non-increasing confidence, and a returned result's confidence
\* is at least the confidence of each of its alternatives.
C7_RankingsSorted ==
    /\ \A i, j \in DOMAIN rankings :
           i < j => ConfLeq(rankings[j].conf, rankings[i].conf)
    /\ pc = "done" =>
           \A i \in DOMAIN result.alternative_taals :
               ConfLeq(result.alternative_taals[i].conf, result.confidence)

\* a result of the retry path whose last alternative has a confidence strictly
\* below the best match's, and whose merged list was not in that order
C7_Witness ==
    /\ pc = "done"
    /\ path = "retry"
    /\ Len(result.alternative_taals) >= 2
    /\ ~ConfLeq(result.confidence,
                result.alternative_taals[Len(result.alternative_taals)].conf)
    /\ AllNearby(accent_strengths, cycle_length, 1) # rankings

\* a TaalDefinition is well-formed
WellFormed(taal_def) ==
    /\ taal_def.matras = SumSeq(taal_def.vibhags)
    /\ 0 <= taal_def.sam_position
    /\ taal_def.sam_position < taal_def.matras
    /\ \A p \in Range(taal_def.khali_positions) \cup Range(taal_def.tali_positions) :
           0 <= p /\ p < taal_def.matras

\* C8: every TaalDefinition of the registry is well-formed (matras is the sum
\* of the vibhags, the sam position and every khali and tali position lie in
\* [0, matras)), in every state of a run: no step changes the registry.
C8_RegistryWellFormed ==
    /\ DOMAIN registry = TaalName
    /\ \A name \in TaalName : WellFormed(registry[name])

\* a returned result for rupak, whose sam position is also a khali position
C8_Witness ==
    /\ pc = "done"
    /\ path = "primary"
    /\ result.taal = "rupak"
    /\ registry[result.taal].sam_position
           \in Range(registry[result.taal].khali_positions)
    /\ WellFormed(registry[result.taal])

\* s[p] + s[p + c] + ... over n cycles
RECURSIVE StrideSum(_, _, _, _)
StrideSum(s, p, c, n) ==
    IF n = 0 THEN 0 ELSE s[p + (n - 1) * c] + StrideSum(s, p, c, n - 1)

\* the first n * c entries of s repeat its first c entries
RepeatsFirstCycle(s, c, n) ==
    \A i \in 1..(n * c) : s[i] = s[((i - 1) % c) + 1]

\* C9: for c > 0, _average_cyclic_pattern(s, c) has exactly c entries; when
\* len(s) >= c, entry p is the mean of s[p], s[p + c], ... over the
\* floor(len(s) / c) full cycles, whatever the trailing partial cycle holds, so
\* that repetitions of a pattern followed by a shorter tail average to the
\* pattern; when len(s) < c, it is s followed by zeros.
C9_CyclicAverage ==
    (pc = "averaged" /\ cycle_length > 0) =>
        /\ Len(avg_pattern.num) = cycle_length
        /\ avg_pattern.den > 0
        /\ Len(accent_strengths) >= cycle_length =>
               /\ \A p \in 1..cycle_length :
                      avg_pattern.num[p] * (Len(accent_strengths) \div cycle_length)
                          = avg_pattern.den
                              * StrideSum(accent_strengths, p, cycle_length,
                                          Len(accent_strengths) \div cycle_length)
               /\ RepeatsFirstCycle(accent_strengths, cycle_length,
                                    Len(accent_strengths) \div cycle_length) =>
                      \A p \in 1..cycle_length :
                          avg_pattern.num[p] = avg_pattern.den * accent_strengths[p]
        /\ Len(accent_strengths) < cycle_length =>
               \A p \in 1..cycle_length :
                   avg_pattern.num[p]
                       = avg_pattern.den
                           * (IF p <= Len(accent_strengths)
                              THEN accent_strengths[p] ELSE 0)

\* the average of two full cycles of length 3 that differ, followed by a
\* non-zero tail
C9_Witness ==
    /\ pc = "averaged"
    /\ cycle_length = 3
    /\ accent_strengths = <<1, 0, 1, 0, 0, 1, 1>>
    /\ avg_pattern = [num |-> <<1, 0, 2>>, den |-> 2]

NoTempo(beat_times) ==
    \/ Len(beat_times) < 2
    \/ TwiceMedian(compute_ioi(beat_times)) <= 0

\* C11: when there are fewer than two beats, or the median inter-beat interval
\* is not positive, the returned result has tempo_bpm, matra_duration and
\* cycle_duration 0, on the fallback path and on the other paths alike, and the
\* run does not end in an error.
C11_NoTempoGivesZeros ==
    NoTempo(beats) =>
        /\ pc # "error"
        /\ pc = "done" =>
               /\ result # NoResult
               /\ result.tempo_bpm = 0
               /\ result.matra_duration = 0
               /\ result.cycle_duration = 0

\* a result of the primary path for three beats at the same time
C11_Witness ==
    /\ pc = "done"
    /\ path = "primary"
    /\ Len(beats) = 3
    /\ NoTempo(beats)
    /\ result.tempo_bpm = 0
    /\ result.cycle_duration = 0

\* (60 / tempo_bpm) * matras, 0 when tempo_bpm is 0, to four decimals; the
\* tempo in tenths of a beat per minute, the duration in ten-thousandths of a
\* second
RecomputedCycleDuration(tempo_bpm, matras) ==
    IF tempo_bpm = 0 THEN 0
    ELSE RoundHalfEven(60 * 10 * 10000 * matras, tempo_bpm)

\* C12 as claimed: the cycle duration recomputed from the reported tempo_bpm
\* and the matras of the fallback result's taal is the cycle_duration reported.
C12_FallbackRoundTrip ==
    (pc = "done" /\ path = "fallback") =>
        RecomputedCycleDuration(result.tempo_bpm, registry[result.taal].matras)
            = result.cycle_duration

\* the estimated tempo has at most one decimal: rounding it changes nothing
TempoUnchangedByRounding(beat_times, tempo_bpm) ==
    tempo_bpm * estimate_tempo(beat_times).den = 10 * estimate_tempo(beat_times).num

\* C12 as amended: the recomputed cycle duration is the one reported whenever
\* rounding to one decimal left the estimated tempo unchanged (a tempo of 0
\* included).
C12_RoundTripOfExactTempo ==
    (pc = "done" /\ path = "fallback"
        /\ TempoUnchangedByRounding(beats, result.tempo_bpm)) =>
        RecomputedCycleDuration(result.tempo_bpm, registry[result.taal].matras)
            = result.cycle_duration

\* a fallback result with a tempo above 0 that has no more than one decimal
C12_Witness ==
    /\ pc = "done"
    /\ path = "fallback"
    /\ result.tempo_bpm > 0
    /\ TempoUnchangedByRounding(beats, result.tempo_bpm)
    /\ result.cycle_duration > 0

\* the template entry at the sam of the taal, for the taal's own cycle length
WeightAtSam(taal) ==
    _build_expected_accent_pattern(taal, registry[taal].matras)
        [registry[taal].sam_position + 1]

\* C13: the expected accent template of every registered taal that the primary
\* match has built, at the taal's own cycle length, has 1.0 at sam_position,
\* also when the sam is among the taal's tali or khali positions.
C13_SamWeighsMost ==
    (path = "primary" /\ pc = "build") =>
        \A i \in DOMAIN rankings : WeightAtSam(rankings[i].taal) = SamWeight

\* the reference vote: the scan whose running maximum starts at the first
\* position of the stream, then the same tally
ReferenceVote(pos) ==
    LET scan == ScanResets(pos, 2, <<>>, pos[1])
        recorded ==
            IF scan.current_max > 0
            THEN Append(scan.cycle_lengths, scan.current_max + 1)
            ELSE scan.cycle_lengths
    IN  IF recorded = <<>> THEN SetMax(Range(pos)) + 1
        ELSE MostCommon(recorded)

\* C14: for every non-empty stream of positions estimate_cycle_length returns
\* the value of the reference vote, whose running maximum takes in the first
\* position of the stream.
C14_EstimateIsReferenceVote ==
    (pc = "match" /\ downbeats # <<>>) =>
        cycle_length = ReferenceVote(downbeats)

\* the cycle lengths the retry looks at: the offsets from the estimate, the
\* non-positive lengths left out
RetryLengths(cycle_len) ==
    {cycle_len + RetryOffsets[k] : k \in DOMAIN RetryOffsets} \ {n \in -2..0 : TRUE}

\* C15: the escalation is ordered. The retry is evaluated only after the match
\* at the estimated cycle length gave an empty ranking, and ranks only taals
\* of the lengths at the offsets -1, +1, -2, +2 that are positive; the fallback
\* is taken only after the retry ranking is empty too; beats are annotated
\* only in results of the other paths.
C15_EscalationOrdered ==
    [][/\ (path' = "retry" /\ path # "retry") =>
              /\ path = "primary"
              /\ rankings = <<>>
              /\ \A i \in DOMAIN rankings' :
                     registry[rankings'[i].taal].matras \in RetryLengths(cycle_length)
       /\ (path' = "fallback" /\ path # "fallback") =>
              /\ path = "retry"
              /\ rankings = <<>>
              /\ result'.beats = <<>>
       /\ (result' # result /\ path' # "fallback") =>
              /\ rankings # <<>>
              /\ result'.beats = _build_beat_infos(beats, accent_strengths,
                                                   registry[rankings[1].taal])
      ]_vars

\* a fallback result for a run with beats, reached through the empty match and
\* the empty retry
C15_Witness ==
    /\ pc = "done"
    /\ path = "fallback"
    /\ rankings = <<>>
    /\ beats # <<>>
    /\ result.beats = <<>>

\* the ranking of the sequential evaluation, offsets -1, +1, -2, +2 in turn
SequentialRetry == _try_nearby_cycle_lengths(accent_strengths, cycle_length)

NoTieAcrossOffsets(ranking) ==
    \A i, j \in DOMAIN ranking :
        registry[ranking[i].taal].matras # registry[ranking[j].taal].matras
            => ~ConfEq(ranking[i].conf, ranking[j].conf)

AnnotatesBeat(info, k, taal_def) ==
    /\ info.time = RoundHalfEven(10000 * beats[k], TicksPerSecond)
    /\ info.beat_position >= 0
    /\ info.beat_position < taal_def.matras
    /\ info.beat_position = (k - 1) % taal_def.matras
    /\ info.is_sam <=> (info.beat_position = taal_def.sam_position)
    /\ info.is_khali <=> (\E j \in DOMAIN taal_def.khali_positions :
                             taal_def.khali_positions[j] = info.beat_position)
    /\ k > Len(accent_strengths) => info.strength = 0

\* C17: a result of the primary or the retry path has one BeatInfo per beat,
\* in the order of the beats; beat i has the position i mod matras of the
\* matched taal, is_sam exactly at sam_position, is_khali exactly at the khali
\* positions, and strength 0 when the strengths have no entry at index i.
C17_OneBeatInfoPerBeat ==
    (pc = "done" /\ path # "fallback") =>
        /\ Len(result.beats) = Len(beats)
        /\ \A k \in DOMAIN result.beats :
               AnnotatesBeat(result.beats[k], k, registry[result.taal])

\* a result whose beats go past one cycle of the matched taal: the beat after
\* the cycle is at the sam again, and has no strength of its own
C17_Witness ==
    /\ pc = "done"
    /\ path # "fallback"
    /\ Len(beats) > registry[result.taal].matras
    /\ Len(accent_strengths) = registry[result.taal].matras
    /\ result.beats[registry[result.taal].matras + 1].beat_position = 0
    /\ result.beats[registry[result.taal].matras + 1].is_sam
    /\ result.beats[registry[result.taal].matras].beat_position
           = registry[result.taal].matras - 1

\* no registered taal has its matras nearer to c than the taal named
ClosestByMatras(name, c) ==
    \A other \in DOMAIN registry :
        Abs(registry[name].matras - c) <= Abs(registry[other].matras - c)

=============================================================================
